---- MODULE Spec2Model ----
(***************************************************************************)
(* dubdub rust-service: the tokenizer (tokenizer.rs) and the aligner       *)
(* (aligner.rs).                                                           *)
(*                                                                         *)
(* A text is a sequence of characters (Unicode scalar values) drawn from a *)
(* small alphabet that has one member of every class the code tells apart: *)
(* letters of one and of three UTF-8 bytes, a combining mark, whitespace,  *)
(* a digit (neither letter, mark, joiner nor whitespace) and the two       *)
(* punctuation characters that are the joiners of the word pattern.  Byte  *)
(* offsets are offsets into the UTF-8 encoding of the text.                *)
(*                                                                         *)
(* An f64 is modelled by a binary floating-point format with Prec          *)
(* significant bits, round-to-nearest-even and gradual underflow; a value  *)
(* is held as an integer number of units of the smallest subnormal.        *)
(***************************************************************************)
EXTENDS Integers, Sequences, FiniteSets, TLC

\* ------------------------------------------------------------------ bounds
MaxLen == 4      \* characters in a request's text
MaxTime == 7     \* largest subtitle time of a request, in seconds
Prec == 3        \* significant bits of the floating-point format
FracBits == 2    \* a second is 2^FracBits units of the smallest subnormal

\* -------------------------------------------------------------- characters
\* "a" U+0061, "han" U+4E2D, "acute" U+0301 (combining), "sp" U+0020,
\* "1" U+0031, "'" U+0027, "-" U+002D
Chars == {"a", "han", "acute", "sp", "1", "'", "-"}

AlignChars == {"a", "han", "sp"}

Utf8(c) ==
    CASE c = "a"     -> <<97>>
      [] c = "han"   -> <<228, 184, 173>>
      [] c = "acute" -> <<204, 129>>
      [] c = "sp"    -> <<32>>
      [] c = "1"     -> <<49>>
      [] c = "'"     -> <<39>>
      [] c = "-"     -> <<45>>

\* \w in place of [\p{L}\p{M}]: digits are word characters too
IsLetterOrMark_WordChar(c) == c \in {"a", "han", "acute", "1"}

\* \p{L} or \p{M}
IsLetterOrMark(c) == c \in {"a", "han", "acute"}

\* ['\-]
IsJoiner(c) == c \in {"'", "-"}

\* White_Space, what str::trim strips
IsWhitespace(c) == c = "sp"

\* Grapheme_Cluster_Break = Extend
IsExtend(c) == c = "acute"

RECURSIVE Encode(_)
\* the UTF-8 bytes of a string
Encode(s) == IF s = <<>> THEN <<>> ELSE Utf8(Head(s)) \o Encode(Tail(s))

\* str::len: the length in bytes
StrLen(s) == Len(Encode(s))

\* str::chars().count(): the number of Unicode scalar values
CharCount(s) == Len(s)

RECURSIVE SeqsUpTo(_, _)
SeqsUpTo(S, n) ==
    IF n = 0 THEN {<<>>}
    ELSE LET shorter == SeqsUpTo(S, n - 1)
         IN  shorter \cup {Append(s, c) : s \in shorter, c \in S}

Texts == SeqsUpTo(Chars, MaxLen)

AlignTexts == SeqsUpTo(AlignChars, MaxLen)

\* ---------------------------------------------------------------- language
UpperToLower ==
    [c \in {"Z", "H", "J", "A", "K", "O", "E", "N"} |->
        CASE c = "Z" -> "z" [] c = "H" -> "h" [] c = "J" -> "j" [] c = "A" -> "a"
          [] c = "K" -> "k" [] c = "O" -> "o" [] c = "E" -> "e" [] c = "N" -> "n"]

RECURSIVE to_lowercase(_)
to_lowercase(s) ==
    IF s = <<>> THEN <<>>
    ELSE <<IF Head(s) \in DOMAIN UpperToLower THEN UpperToLower[Head(s)] ELSE Head(s)>>
         \o to_lowercase(Tail(s))

CjkTags ==
    { <<"c","h","i","n","e","s","e">>, <<"z","h">>,
      <<"z","h","-","h","a","n","s">>, <<"z","h","-","h","a","n","t">>,
      <<"j","a","p","a","n","e","s","e">>, <<"j","a">>,
      <<"k","o","r","e","a","n">>, <<"k","o">> }

is_cjk_language(lang) == lang \in CjkTags

Languages ==
    CjkTags \cup
    { <<"Z","H">>, <<"K","o">>, <<"e","n">>, <<"z","h","-","c","n">> }

AlignLanguages == { <<"e","n">>, <<"Z","H">> }

\* --------------------------------------------------------------- tokenizer
RECURSIVE ClusterLen(_)
\* characters of the first extended grapheme cluster of a non-empty text:
\* a character and the Extend characters that follow it
ClusterLen(s) ==
    IF Len(s) >= 2 /\ IsExtend(s[2])
    THEN 1 + ClusterLen(<<s[1]>> \o SubSeq(s, 3, Len(s)))
    ELSE 1

RECURSIVE graphemes(_)
graphemes(text) ==
    IF text = <<>> THEN <<>>
    ELSE LET n == ClusterLen(text)
         IN  <<SubSeq(text, 1, n)>> \o graphemes(SubSeq(text, n + 1, Len(text)))

RECURSIVE trim_start(_)
trim_start(s) ==
    IF s # <<>> /\ IsWhitespace(Head(s)) THEN trim_start(Tail(s)) ELSE s

RECURSIVE trim_end(_)
trim_end(s) ==
    IF s # <<>> /\ IsWhitespace(s[Len(s)]) THEN trim_end(SubSeq(s, 1, Len(s) - 1)) ELSE s

trim(s) == trim_end(trim_start(s))

\* a skipped cluster that leaves the cursor where it was
SkipAdvance_Stay(current_pos, grapheme_len) == current_pos

\* the cursor after a skipped (whitespace) cluster
SkipAdvance(current_pos, grapheme_len) == current_pos + grapheme_len

\* a cursor that counts characters where the code counts bytes
GraphemeLen_CharCount(grapheme_str) == CharCount(grapheme_str)

\* the length of a grapheme the cursor and the positions are built from
GraphemeLen(grapheme_str) == StrLen(grapheme_str)

RECURSIVE CjkLoop(_, _, _, _)
\* the for loop of tokenize_cjk over the clusters gs, from cursor current_pos
CjkLoop(gs, current_pos, tokens, positions) ==
    IF gs = <<>> THEN [tokens |-> tokens, positions |-> positions]
    ELSE LET grapheme == Head(gs)
             grapheme_len == GraphemeLen(grapheme)
         IN  IF trim(grapheme) = <<>>
             THEN CjkLoop(Tail(gs), SkipAdvance(current_pos, grapheme_len),
                          tokens, positions)
             ELSE CjkLoop(Tail(gs), current_pos + grapheme_len,
                          Append(tokens, grapheme),
                          Append(positions, [start |-> current_pos,
                                             end |-> current_pos + grapheme_len]))

tokenize_cjk(text) == CjkLoop(graphemes(text), 0, <<>>, <<>>)

RECURSIVE LetterRunEnd(_, _)
\* the index of the last character of the run [\p{L}\p{M}]* that starts at i
\* (i - 1 when the run is empty)
LetterRunEnd(text, i) ==
    IF i <= Len(text) /\ IsLetterOrMark(text[i]) THEN LetterRunEnd(text, i + 1) ELSE i - 1

RECURSIVE JoinedEnd(_, _)
\* (?:['\-][\p{L}\p{M}]+)* taken greedily after a match that ends at j
JoinedEnd(text, j) ==
    IF /\ j + 2 <= Len(text)
       /\ IsJoiner(text[j + 1])
       /\ IsLetterOrMark(text[j + 2])
    THEN JoinedEnd(text, LetterRunEnd(text, j + 2))
    ELSE j

\* the index of the last character of the match of the word pattern at i,
\* 0 when there is none
MatchEnd(text, i) ==
    IF LetterRunEnd(text, i) < i THEN 0 ELSE JoinedEnd(text, LetterRunEnd(text, i))

\* Match::start: the byte offset of character i
MatStart(text, i) == StrLen(SubSeq(text, 1, i - 1))

\* an end offset counted in characters
MatEnd_CharIndex(text, j) == j

\* Match::end: the byte offset after character j
MatEnd(text, j) == StrLen(SubSeq(text, 1, j))

RECURSIVE FindIter(_, _, _, _)
\* find_iter: the leftmost non-overlapping matches from character i on
FindIter(text, i, tokens, positions) ==
    IF i > Len(text) THEN [tokens |-> tokens, positions |-> positions]
    ELSE LET j == MatchEnd(text, i)
         IN  IF j = 0 THEN FindIter(text, i + 1, tokens, positions)
             ELSE FindIter(text, j + 1,
                           Append(tokens, SubSeq(text, i, j)),
                           Append(positions, [start |-> MatStart(text, i),
                                              end |-> MatEnd(text, j)]))

tokenize_standard(text) == FindIter(text, 1, <<>>, <<>>)

tokenize_text(text, language) ==
    LET language_lower == to_lowercase(language)
        r == IF is_cjk_language(language_lower) THEN tokenize_cjk(text)
             ELSE tokenize_standard(text)
    IN  [kind |-> "Ok", text |-> text, language |-> language,
         tokens |-> r.tokens, positions |-> r.positions]

\* ---------------------------------------------------------- floating point
RECURSIVE Pow2(_)
Pow2(n) == IF n = 0 THEN 1 ELSE 2 * Pow2(n - 1)

Abs(x) == IF x < 0 THEN -x ELSE x

RECURSIVE BitLen(_)
\* the number of significant bits of n >= 0
BitLen(n) == IF n = 0 THEN 0 ELSE 1 + BitLen(n \div 2)

\* the distance between neighbouring values of the format at magnitude n:
\* one unit up to Prec bits (the subnormals and the first binade), doubling
\* with every further bit
Ulp(n) == IF BitLen(n) <= Prec THEN 1 ELSE Pow2(BitLen(n) - Prec)

\* the values of the format
Representable(x) == Abs(x) % Ulp(Abs(x)) = 0

\* num / den (den > 0) rounded to the nearest value of the format, ties to
\* the even significand
RoundRat(num, den) ==
    LET a == Abs(num)
        u == Ulp(a \div den)
        lo == a \div (den * u)
        rem == a - lo * den * u
        k == IF 2 * rem < den * u THEN lo
             ELSE IF 2 * rem > den * u THEN lo + 1
             ELSE IF lo % 2 = 0 THEN lo ELSE lo + 1
    IN  IF num < 0 THEN -(k * u) ELSE k * u

\* f64 + f64, f64 - f64
FAdd(x, y) == RoundRat(x + y, 1)
FSub(x, y) == RoundRat(x - y, 1)

\* a division by one count too many
FDivCount_OffByOne(x, n) == RoundRat(x, n + 1)

\* f64 / (n as f64) for a count n >= 1 (n < 2^Prec converts exactly)
FDivCount(x, n) == RoundRat(x, n)

\* quotients of two counts lie in (0, 1]; they are held in units of
\* 1 / WeightScale, fine enough that every such quotient is a normal number
WeightScale == Pow2(Prec + MaxLen)

\* (m as f64) / (n as f64) for counts 0 <= m <= n, n >= 1
FRatio(m, n) == RoundRat(m * WeightScale, n)

\* f64 * weight
FMulWeight(x, w) == RoundRat(x * w, WeightScale)

\* one second
TimeUnit == Pow2(FracBits)

\* the subtitle times of the requests: whole seconds that are values of the
\* format (any JSON number is read as the f64 nearest to it)
Times == {t * TimeUnit : t \in {k \in 0..MaxTime : Representable(k * TimeUnit)}}

\* --------------------------------------------------------------- aligner
NoAudio == [some |-> FALSE]
SomeAudio(url) == [some |-> TRUE, url |-> url]

AudioRefs == {NoAudio, SomeAudio(""), SomeAudio("http://a")}

EmptyInput == "No words found to align"
InvalidTiming == "Invalid subtitle timing: end must be after start"
ZeroWeight == "No characters found"
NotImplemented == "Forced alignment not yet implemented"

Err(msg) == [kind |-> "Err", error |-> msg]

RECURSIVE SumChars(_)
\* tokens.iter().map(|word| word.chars().count()).sum()
SumChars(tokens) ==
    IF tokens = <<>> THEN 0 ELSE CharCount(Head(tokens)) + SumChars(Tail(tokens))

\* a weight in bytes
WordWeight_Bytes(word) == StrLen(word)

\* the weight a word is given in align_weighted
WordWeight(word) == CharCount(word)

\* word_duration of align_weighted for one word
WordDuration(word, total_chars, total_duration) ==
    LET word_chars == WordWeight(word)
        weight == FRatio(word_chars, total_chars)
    IN  FMulWeight(total_duration, weight)

\* a start recomputed from subtitle_start instead of taken from the cursor
TimingStart_Recomputed(current_time, subtitle_start, i, step) ==
    FAdd(subtitle_start, RoundRat((i - 1) * step, 1))

\* the start of the timing built at cursor current_time
TimingStart(current_time, subtitle_start, i, step) == current_time

RECURSIVE WeightedLoop(_, _, _, _, _, _, _, _)
\* the for loop of align_weighted from token i on: the timings and the
\* word_duration of every iteration
WeightedLoop(tokenized, request, total_duration, total_chars, i, current_time, timings, durations) ==
    IF i > Len(tokenized.tokens)
    THEN [timings |-> timings, durations |-> durations]
    ELSE LET word == tokenized.tokens[i]
             word_duration == WordDuration(word, total_chars, total_duration)
             timing == [word |-> word,
                        start |-> TimingStart(current_time, request.subtitle_start,
                                              i, word_duration),
                        end |-> FAdd(current_time, word_duration),
                        confidence |-> "0.75",
                        char_start |-> tokenized.positions[i].start,
                        char_end |-> tokenized.positions[i].end]
         IN  WeightedLoop(tokenized, request, total_duration, total_chars, i + 1,
                          FAdd(current_time, word_duration),
                          Append(timings, timing), Append(durations, word_duration))

\* a check that lets a zero duration through
TimingRejected_Strict(total_duration) == total_duration < 0

\* the total_duration <= 0.0 check of align_weighted
TimingRejected(total_duration) == total_duration <= 0

align_weighted(request) ==
    LET tokenized == tokenize_text(request.text, request.language)
        total_duration == FSub(request.subtitle_end, request.subtitle_start)
        total_chars == SumChars(tokenized.tokens)
        loop == WeightedLoop(tokenized, request, total_duration, total_chars, 1,
                             request.subtitle_start, <<>>, <<>>)
    IN  IF tokenized.tokens = <<>> THEN [resp |-> Err(EmptyInput), durations |-> <<>>]
        ELSE IF TimingRejected(total_duration)
        THEN [resp |-> Err(InvalidTiming), durations |-> <<>>]
        ELSE IF total_chars = 0 THEN [resp |-> Err(ZeroWeight), durations |-> <<>>]
        ELSE [resp |-> [kind |-> "Ok", text |-> request.text,
                        language |-> request.language,
                        duration |-> total_duration,
                        timings |-> loop.timings,
                        method |-> "weighted"],
              durations |-> loop.durations]

RECURSIVE LinearLoop(_, _, _, _, _, _)
\* the for loop of align_linear from token i on
LinearLoop(tokenized, request, time_per_word, i, current_time, timings) ==
    IF i > Len(tokenized.tokens) THEN timings
    ELSE LET timing == [word |-> tokenized.tokens[i],
                        start |-> TimingStart(current_time, request.subtitle_start,
                                              i, time_per_word),
                        end |-> FAdd(current_time, time_per_word),
                        confidence |-> "0.5",
                        char_start |-> tokenized.positions[i].start,
                        char_end |-> tokenized.positions[i].end]
         IN  LinearLoop(tokenized, request, time_per_word, i + 1,
                        FAdd(current_time, time_per_word), Append(timings, timing))

align_linear(request) ==
    LET tokenized == tokenize_text(request.text, request.language)
        total_duration == FSub(request.subtitle_end, request.subtitle_start)
        time_per_word == FDivCount(total_duration, Len(tokenized.tokens))
    IN  IF tokenized.tokens = <<>> THEN [resp |-> Err(EmptyInput), durations |-> <<>>]
        ELSE [resp |-> [kind |-> "Ok", text |-> request.text,
                        language |-> request.language,
                        duration |-> total_duration,
                        timings |-> LinearLoop(tokenized, request, time_per_word, 1,
                                               request.subtitle_start, <<>>),
                        method |-> "linear"],
              durations |-> [i \in 1..Len(tokenized.tokens) |-> time_per_word]]

\* req.audio_url.is_some()
AudioGiven(request) == request.audio_url.some

\* a selector that validates the text and the timing before it looks at the audio
align_smart_ValidatesFirst(request) ==
    IF align_weighted(request).resp.kind = "Err" THEN align_weighted(request)
    ELSE IF AudioGiven(request) THEN [resp |-> Err(NotImplemented), durations |-> <<>>]
    ELSE align_weighted(request)

align_smart(request) ==
    IF AudioGiven(request) THEN [resp |-> Err(NotImplemented), durations |-> <<>>]
    ELSE align_weighted(request)

\* the requests of POST /api/align
AlignmentRequests ==
    [text : AlignTexts, language : AlignLanguages,
     subtitle_start : Times, subtitle_end : Times, audio_url : AudioRefs]

\* the requests of the direct callers of align_weighted and align_linear
\* (align_smart and the tests), which all pass audio_url: None
DirectRequests ==
    [text : AlignTexts, language : AlignLanguages,
     subtitle_start : Times, subtitle_end : Times, audio_url : {NoAudio}]

\* ------------------------------------------------------------------- state
\* op: the operation in progress; req: its request; resp: its result;
\* word_durations: the duration the aligner's loop gave each token
VARIABLES op, req, resp, word_durations

vars == <<op, req, resp, word_durations>>

Init ==
    /\ op = "idle"
    /\ req = [text |-> <<>>]
    /\ resp = [kind |-> "None"]
    /\ word_durations = <<>>

\* POST /api/tokenize
Tokenize ==
    /\ op = "idle"
    /\ \E text \in Texts, language \in Languages :
          /\ req' = [text |-> text, language |-> language]
          /\ resp' = tokenize_text(text, language)
    /\ op' = "tokenize"
    /\ UNCHANGED word_durations

AlignWeighted ==
    /\ op = "idle"
    /\ \E request \in DirectRequests :
          LET result == align_weighted(request)
          IN  /\ req' = request
              /\ resp' = result.resp
              /\ word_durations' = result.durations
    /\ op' = "align_weighted"

AlignLinear ==
    /\ op = "idle"
    /\ \E request \in DirectRequests :
          LET result == align_linear(request)
          IN  /\ req' = request
              /\ resp' = result.resp
              /\ word_durations' = result.durations
    /\ op' = "align_linear"

\* POST /api/align
AlignSmart ==
    /\ op = "idle"
    /\ \E request \in AlignmentRequests :
          LET result == align_smart(request)
          IN  /\ req' = request
              /\ resp' = result.resp
              /\ word_durations' = result.durations
    /\ op' = "align_smart"

\* the response is produced and the request's entities are dropped
Return ==
    /\ op # "idle"
    /\ op' = "idle"
    /\ req' = [text |-> <<>>]
    /\ resp' = [kind |-> "None"]
    /\ word_durations' = <<>>

Next == Tokenize \/ AlignWeighted \/ AlignLinear \/ AlignSmart \/ Return

\* the whole service
Spec == Init /\ [][Next]_vars

TokNext == Tokenize \/ Return

\* the tokenizer alone
TokSpec == Init /\ [][TokNext]_vars

AlignNext == AlignWeighted \/ AlignLinear \/ AlignSmart \/ Return

\* the aligner alone
AlignSpec == Init /\ [][AlignNext]_vars

\* ------------------------------------------------------------ properties
\* the tokens and positions the request's text has under its language
Tokenized == tokenize_text(req.text, req.language)

Aligned == op \in {"align_weighted", "align_linear", "align_smart"} /\ resp.kind = "Ok"

\* text[s..e] as bytes
ByteSlice(text, s, e) == SubSeq(Encode(text), s + 1, e)

\* C1: after tokenize_text, on either path, the bytes of the text between
\* positions[i].start and positions[i].end are the bytes of tokens[i]
C1_OffsetRoundTrip ==
    op = "tokenize" =>
        \A i \in 1..Len(resp.tokens) :
            /\ i \in DOMAIN resp.positions
            /\ ByteSlice(req.text, resp.positions[i].start, resp.positions[i].end)
                   = Encode(resp.tokens[i])

\* a CJK tokenization whose second token starts behind a three-byte character
C1_Witness ==
    /\ op = "tokenize"
    /\ is_cjk_language(to_lowercase(req.language))
    /\ Len(resp.tokens) >= 2
    /\ resp.tokens[1] = <<"han">>
    /\ resp.positions[2].start >= 3
    /\ ByteSlice(req.text, resp.positions[2].start, resp.positions[2].end)
           = Encode(resp.tokens[2])

\* C2: when align_weighted or align_linear succeeds, the first timing starts
\* at subtitle_start and every timing ends where the next one starts, so
\* that (the duration not being negative) no two timings overlap
C2_Contiguity ==
    (op \in {"align_weighted", "align_linear"} /\ resp.kind = "Ok") =>
        /\ resp.timings[1].start = req.subtitle_start
        /\ \A i \in 1..(Len(resp.timings) - 1) :
               resp.timings[i].end = resp.timings[i + 1].start
        /\ req.subtitle_end >= req.subtitle_start =>
               \A i \in 1..Len(resp.timings) :
                   resp.timings[i].start <= resp.timings[i].end

\* three timings whose durations were rounded, still contiguous
C2_Witness ==
    /\ op \in {"align_weighted", "align_linear"}
    /\ resp.kind = "Ok"
    /\ Len(resp.timings) >= 3
    /\ resp.timings[Len(resp.timings)].end # req.subtitle_end
    /\ resp.timings[2].end = resp.timings[3].start
    /\ resp.timings[2].start < resp.timings[2].end

RECURSIVE SumDurations(_)
\* the sum over the timings of end - start, in exact arithmetic
SumDurations(timings) ==
    IF timings = <<>> THEN 0
    ELSE (Head(timings).end - Head(timings).start) + SumDurations(Tail(timings))

ValidRequest ==
    /\ op \in {"align_weighted", "align_linear"}
    /\ Len(Tokenized.tokens) >= 1
    /\ req.subtitle_end > req.subtitle_start

ExactQuotient(num, den) == num % den = 0 /\ Representable(num \div den)

RECURSIVE PrefixChars(_, _)
\* the characters of the first k tokens
PrefixChars(tokens, k) ==
    IF k = 0 THEN 0 ELSE PrefixChars(tokens, k - 1) + CharCount(tokens[k])

\* no operation of the alignment of the request rounds: the difference, the
\* per-token durations and every cursor value are values of the format
NoRounding ==
    LET tokens == Tokenized.tokens
        n == Len(tokens)
        total == req.subtitle_end - req.subtitle_start
        chars == PrefixChars(tokens, n)
    IN  /\ Representable(total)
        /\ IF op = "align_linear"
           THEN /\ ExactQuotient(total, n)
                /\ \A k \in 1..n :
                       Representable(req.subtitle_start + k * (total \div n))
           ELSE /\ \A k \in 1..n :
                       /\ ExactQuotient(CharCount(tokens[k]) * WeightScale, chars)
                       /\ ExactQuotient(total * CharCount(tokens[k]), chars)
                       /\ ExactQuotient(total * PrefixChars(tokens, k), chars)
                       /\ Representable(req.subtitle_start
                                        + (total * PrefixChars(tokens, k)) \div chars)

C4_LinearRejectsInvalidTiming ==
    op = "align_linear" =>
        /\ (Len(Tokenized.tokens) >= 1 /\ req.subtitle_end - req.subtitle_start <= 0)
               => resp = Err(InvalidTiming)
        /\ resp.kind = "Ok" =>
               \A i \in 1..Len(resp.timings) : resp.timings[i].end >= resp.timings[i].start

\* C5: align_weighted fails with EmptyInput when there is no token, with
\* InvalidTiming when there is a token and subtitle_end - subtitle_start <= 0,
\* succeeds otherwise, and never fails with ZeroWeight
C5_WeightedOutcomes ==
    op = "align_weighted" =>
        LET n == Len(Tokenized.tokens)
        IN  /\ n = 0 => resp = Err(EmptyInput)
            /\ (n >= 1 /\ req.subtitle_end - req.subtitle_start <= 0)
                   => resp = Err(InvalidTiming)
            /\ (n >= 1 /\ req.subtitle_end - req.subtitle_start > 0)
                   => (resp.kind = "Ok" /\ resp.method = "weighted")
            /\ resp # Err(ZeroWeight)

\* a zero duration on a text with tokens, refused
C5_Witness ==
    /\ op = "align_weighted"
    /\ Len(Tokenized.tokens) >= 1
    /\ req.subtitle_end = req.subtitle_start
    /\ resp = Err(InvalidTiming)

\* C6: align_smart fails with NotImplemented on every request with a
\* non-empty audio reference, gives the outcome of align_weighted on every
\* request without one, and never produces the method forced_aligner
C6_SmartSelector ==
    op = "align_smart" =>
        /\ (req.audio_url.some /\ req.audio_url.url # "") => resp = Err(NotImplemented)
        /\ ~req.audio_url.some => resp = align_weighted(req).resp
        /\ resp.kind = "Ok" => resp.method = "weighted"

\* an audio reference on a request with no token and end <= start
C6_Witness ==
    /\ op = "align_smart"
    /\ req.audio_url.some
    /\ req.audio_url.url # ""
    /\ Len(Tokenized.tokens) = 0
    /\ req.subtitle_end <= req.subtitle_start
    /\ resp = Err(NotImplemented)

\* a text of punctuation and digits only, the empty text included
PunctuationOrDigits(text) ==
    \A k \in 1..Len(text) : text[k] \in {"1", "'", "-"}

\* C7 as stated: under every language tag a text of punctuation and digits
\* only tokenizes, successfully, to no token and no position
C7_NoTokensAnyLanguage ==
    (op = "tokenize" /\ PunctuationOrDigits(req.text)) =>
        /\ resp.kind = "Ok"
        /\ resp.tokens = <<>>
        /\ resp.positions = <<>>

\* C7 as amended: tokenize_text always succeeds; the empty text has no
\* token under any tag; a text of punctuation and digits only has no token
\* under a tag that is not a CJK tag, and one token per character under a
\* CJK tag
C7_NoTokensStandardPath ==
    op = "tokenize" =>
        /\ resp.kind = "Ok"
        /\ req.text = <<>> => (resp.tokens = <<>> /\ resp.positions = <<>>)
        /\ (PunctuationOrDigits(req.text) /\ to_lowercase(req.language) \notin CjkTags)
               => (resp.tokens = <<>> /\ resp.positions = <<>>)
        /\ (PunctuationOrDigits(req.text) /\ to_lowercase(req.language) \in CjkTags)
               => (/\ Len(resp.tokens) = Len(req.text)
                   /\ Len(resp.positions) = Len(req.text))

\* digits and punctuation under a tag of the standard path
C7_Witness ==
    /\ op = "tokenize"
    /\ Len(req.text) >= 3
    /\ PunctuationOrDigits(req.text)
    /\ "1" \in {req.text[k] : k \in 1..Len(req.text)}
    /\ to_lowercase(req.language) \notin CjkTags
    /\ resp.kind = "Ok"
    /\ resp.tokens = <<>>

WhitespaceOnly(g) == \A k \in 1..Len(g) : IsWhitespace(g[k])

RECURSIVE BytesBefore(_, _)
\* the bytes of the clusters before cluster i
BytesBefore(gs, i) ==
    IF i = 1 THEN 0 ELSE BytesBefore(gs, i - 1) + Len(Encode(gs[i - 1]))

\* C8: under a tag that is a CJK tag once lowercased, the tokens are the
\* grapheme clusters of the text that are not whitespace only, in order, and
\* a token starts at the byte length of all clusters before it
C8_CjkSegmentation ==
    (op = "tokenize" /\ to_lowercase(req.language) \in CjkTags) =>
        LET gs == graphemes(req.text)
            kept == {i \in 1..Len(gs) : ~WhitespaceOnly(gs[i])}
            Rank(i) == Cardinality({k \in kept : k <= i})
        IN  /\ Len(resp.tokens) = Cardinality(kept)
            /\ Len(resp.positions) = Cardinality(kept)
            /\ \A i \in kept :
                   /\ resp.tokens[Rank(i)] = gs[i]
                   /\ resp.positions[Rank(i)].start = BytesBefore(gs, i)
                   /\ resp.positions[Rank(i)].end
                          = BytesBefore(gs, i) + Len(Encode(gs[i]))

\* an upper-case tag, and a token behind a skipped whitespace cluster
C8_Witness ==
    /\ op = "tokenize"
    /\ req.language = <<"Z", "H">>
    /\ Len(req.text) >= 3
    /\ req.text[1] = "han"
    /\ req.text[2] = "sp"
    /\ Len(resp.tokens) = 2
    /\ resp.positions[2].start = 4

C10_Shape ==
    /\ op = "tokenize" =>
           /\ Len(resp.positions) = Len(resp.tokens)
           /\ \A i \in 1..Len(resp.tokens) :
                  /\ resp.tokens[i] # <<>>
                  /\ 0 <= resp.positions[i].start
                  /\ resp.positions[i].start < resp.positions[i].end
                  /\ resp.positions[i].end <= StrLen(req.text)
           /\ \A i \in 1..(Len(resp.tokens) - 1) :
                  resp.positions[i].end <= resp.positions[i + 1].start
    /\ Aligned =>
           /\ Len(resp.timings) = Len(Tokenized.tokens)
           /\ \A i \in 1..Len(resp.timings) :
                  /\ resp.timings[i].word = Tokenized.tokens[i]
                  /\ resp.timings[i].char_start = Tokenized.positions[i].start
                  /\ resp.timings[i].char_end = Tokenized.positions[i].end
                  /\ resp.timings[i].char_start < resp.timings[i].char_end
                  /\ resp.timings[i].char_end <= StrLen(req.text)
           /\ \A i \in 1..(Len(resp.timings) - 1) :
                  resp.timings[i].char_end <= resp.timings[i + 1].char_start

\* two timings of a text with a three-byte letter and a skipped space
C10_Witness ==
    /\ Aligned
    /\ Len(resp.timings) = 2
    /\ resp.timings[1].word = <<"han">>
    /\ resp.timings[2].char_start = 4
    /\ resp.timings[2].char_end = 5

====
